---- MODULE Spec2Model ----
(***************************************************************************)
(* A model of process.py: the generator of the videoList block of          *)
(* script.js.  Texts are sequences of one-character strings, so that the   *)
(* searches, slices and replacements of the code are computed on           *)
(* characters, as str.find, str.rfind, slicing and str.replace do.         *)
(* Indices are 0-based as in the source: the Python s[i] is s[i + 1] here. *)
(***************************************************************************)
EXTENDS Integers, Sequences, FiniteSets, TLC

VARIABLES
    pc,         \* position of the running invocation of main / update_script_js
    err,        \* the exception the invocation ended with, or "none"
    runs,       \* invocations started so far
    repeat,     \* TRUE when the invocation repeats the previous command on unchanged files
    args,       \* argparse namespace: id_file, models, public_prefix
    fs,         \* filesystem other than the target document
    script,     \* text of the target document (script.js)
    content,    \* update_script_js: the text it read
    video_ids,  \* main: video_ids
    models,     \* main: models
    entries,    \* main / update_script_js: entries
    call,       \* a direct call of one function: its name and arguments
    ret         \* what that call returned

vars == <<pc, err, runs, repeat, args, fs, script, content, video_ids, models,
          entries, call, ret>>

(***************************************************************************)
(* Python str operations on character sequences                            *)
(***************************************************************************)

\* s[a:b] for 0 <= a, b <= len(s)
Slice(s, a, b) == SubSeq(s, a + 1, b)

\* the indices in lo..hi at which an occurrence of pat starts
occurrences(s, pat, lo, hi) ==
    {i \in lo..hi : s[i + 1] = pat[1] /\ Slice(s, i, i + Len(pat)) = pat}

\* s.find(pat), pat not empty: the lowest index of an occurrence, or -1
find(s, pat) ==
    LET occ == occurrences(s, pat, 0, Len(s) - Len(pat))
    IN  IF occ = {} THEN -1 ELSE CHOOSE i \in occ : \A j \in occ : i <= j

\* s.rfind(pat, lo, hi), pat not empty: the highest index of an occurrence
\* lying within s[lo:hi], or -1
rfind(s, pat, lo, hi) ==
    LET occ == occurrences(s, pat, lo, hi - Len(pat))
    IN  IF occ = {} THEN -1 ELSE CHOOSE i \in occ : \A j \in occ : i >= j

RECURSIVE Concat(_)
Concat(ss) == IF ss = <<>> THEN <<>> ELSE Head(ss) \o Concat(Tail(ss))

RECURSIVE join(_, _)
\* sep.join(ss)
join(sep, ss) ==
    IF ss = <<>> THEN <<>>
    ELSE IF Len(ss) = 1 THEN ss[1]
    ELSE ss[1] \o sep \o join(sep, Tail(ss))

\* All sequences over S of length at most n
SeqsUpTo(S, n) == UNION {[1..k -> S] : k \in 0..n}

(***************************************************************************)
(* Module constants                                                        *)
(***************************************************************************)

VIDEO_LIST_START ==
    <<"/", "/", " ", "=", "=", "=", " ", "V", "I", "D", "E", "O", " ", "L", "I",
      "S", "T", " ", "S", "T", "A", "R", "T", " ", "(", "a", "u", "t", "o", "-",
      "g", "e", "n", "e", "r", "a", "t", "e", "d", ")", " ", "=", "=", "=">>

VIDEO_LIST_END ==
    <<"/", "/", " ", "=", "=", "=", " ", "V", "I", "D", "E", "O", " ", "L", "I",
      "S", "T", " ", "E", "N", "D", " ", "=", "=", "=">>

\* "  // (no videos found)"
NO_VIDEOS ==
    <<" ", " ", "/", "/", " ", "(", "n", "o", " ", "v", "i", "d", "e", "o", "s",
      " ", "f", "o", "u", "n", "d", ")">>

NL == <<"\n">>

(***************************************************************************)
(* update_script_js                                                        *)
(***************************************************************************)

start_idx(text) == find(text, VIDEO_LIST_START)

end_idx(text) == find(text, VIDEO_LIST_END)

\* the condition under which update_script_js raises RuntimeError
markers_not_found(text) ==
    LET s == start_idx(text)
        e == end_idx(text)
    IN  s = -1 \/ e = -1 \/ e <= s

\* In the definitions below s and e are start_idx and end_idx, found once.

\* variant: the slice stops before the start marker
before_drops_marker(text, s) == Slice(text, 0, s)

\* content[: start_idx + len(VIDEO_LIST_START)]
before(text, s) == Slice(text, 0, s + Len(VIDEO_LIST_START))

start_line_start(text, s) == rfind(text, NL, 0, s)

start_indent(text, s) ==
    LET ls == start_line_start(text, s)
    IN  IF ls # -1 THEN Slice(text, ls + 1, s) ELSE <<>>

end_line_start(text, e) == rfind(text, NL, 0, e)

end_indent(text, e) ==
    LET ls == end_line_start(text, e)
    IN  IF ls # -1 THEN Slice(text, ls + 1, e) ELSE <<>>

\* variant: the indentation of the start marker's line, whatever the end marker's
indent_of_start_line(text, s, e) == start_indent(text, s)

\* end_indent or start_indent
indent(text, s, e) ==
    LET ei == end_indent(text, e)
    IN  IF ei # <<>> THEN ei ELSE start_indent(text, s)

\* variant: the slice starts after the end marker
after_skips_marker(text, s, e) ==
    indent(text, s, e) \o Slice(text, e + Len(VIDEO_LIST_END), Len(text))

\* indent + content[end_idx:]
after(text, s, e) == indent(text, s, e) \o Slice(text, e, Len(text))

\* variant: no placeholder for an empty entry sequence
body_keeps_empty(es) == NL \o join(NL, es) \o NL

\* "\n" + "\n".join(entries if entries else ["  // (no videos found)"]) + "\n"
body(es) == NL \o join(NL, IF es # <<>> THEN es ELSE <<NO_VIDEOS>>) \o NL

\* the text update_script_js writes, for a text it does not reject
spliced(text, es) ==
    LET s == start_idx(text)
        e == end_idx(text)
    IN  before(text, s) \o body(es) \o after(text, s, e)

(***************************************************************************)
(* Optional values: <<>> is Python's None, <<x>> is the value x.           *)
(***************************************************************************)

Nothing == <<>>

Some(x) == <<x>>

\* bool(o) for an optional text or list: None and the empty value are falsy
Truthy(o) == o # Nothing /\ o[1] # <<>>

(***************************************************************************)
(* Code points, for sorted()                                               *)
(***************************************************************************)

\* the printable ASCII characters the model uses, in code point order
ASCII ==
    <<" ", "!", "\"", "#", "$", "%", "&", "'", "(", ")", "*", "+", ",", "-", ".",
      "/", "0", "1", "2", "3", "4", "5", "6", "7", "8", "9", ":", ";", "<", "=",
      ">", "?", "@", "A", "B", "C", "D", "E", "F", "G", "H", "I", "J", "K", "L",
      "M", "N", "O", "P", "Q", "R", "S", "T", "U", "V", "W", "X", "Y", "Z", "[",
      "\\", "]", "^", "_", "a", "b", "c", "d", "e", "f", "g", "h", "i", "j",
      "k", "l", "m", "n", "o", "p", "q", "r", "s", "t", "u", "v", "w", "x", "y",
      "z", "{", "|", "}", "~">>

\* the rank of c in code point order (ord(c) up to a monotone renumbering)
ord(c) == CHOOSE i \in 1..Len(ASCII) : ASCII[i] = c

RECURSIVE str_lt(_, _)
\* a < b on str: lexicographic by code point
str_lt(a, b) ==
    IF b = <<>> THEN FALSE
    ELSE IF a = <<>> THEN TRUE
    ELSE IF a[1] = b[1] THEN str_lt(Tail(a), Tail(b))
    ELSE ord(a[1]) < ord(b[1])

RECURSIVE sorted(_)
\* sorted(S) for a collection of distinct strings
sorted(S) ==
    IF S = {} THEN <<>>
    ELSE LET m == CHOOSE x \in S : \A y \in S : y = x \/ str_lt(x, y)
         IN  <<m>> \o sorted(S \ {m})

(***************************************************************************)
(* read_ids_from_file                                                      *)
(***************************************************************************)

Whitespace == {" ", "\t", "\n", "\r", "\f"}

RECURSIVE lstrip(_)
lstrip(s) == IF s # <<>> /\ s[1] \in Whitespace THEN lstrip(Tail(s)) ELSE s

RECURSIVE rstrip(_)
rstrip(s) ==
    IF s # <<>> /\ s[Len(s)] \in Whitespace
    THEN rstrip(SubSeq(s, 1, Len(s) - 1))
    ELSE s

\* s.strip()
strip(s) == rstrip(lstrip(s))

RECURSIVE splitlines_from(_, _, _)
\* the lines of s from index i on, cur being the line read so far;
\* a line ends at "\n", "\r" or "\r\n", and no empty last line is produced
splitlines_from(s, i, cur) ==
    IF i >= Len(s) THEN (IF cur = <<>> THEN <<>> ELSE <<cur>>)
    ELSE IF s[i + 1] = "\n" THEN <<cur>> \o splitlines_from(s, i + 1, <<>>)
    ELSE IF s[i + 1] = "\r"
         THEN IF i + 1 < Len(s) /\ s[i + 2] = "\n"
              THEN <<cur>> \o splitlines_from(s, i + 2, <<>>)
              ELSE <<cur>> \o splitlines_from(s, i + 1, <<>>)
    ELSE splitlines_from(s, i + 1, Append(cur, s[i + 1]))

\* s.splitlines()
splitlines(s) == splitlines_from(s, 0, <<>>)

\* line.split(",")[0]
first_field(line) ==
    IF find(line, <<",">>) = -1 THEN line ELSE Slice(line, 0, find(line, <<",">>))

RECURSIVE ids_of_lines(_)
ids_of_lines(lines) ==
    IF lines = <<>> THEN <<>>
    ELSE IF strip(Head(lines)) = <<>> THEN ids_of_lines(Tail(lines))
    ELSE <<strip(first_field(Head(lines)))>> \o ids_of_lines(Tail(lines))

read_ids_from_file(text) == ids_of_lines(splitlines(text))

(***************************************************************************)
(* The filesystem.  fs is a record:                                        *)
(*   root_exists  whether the --root directory exists                      *)
(*   children     the entries of the root: records [name, is_dir]          *)
(*   files        the pairs <<model, video>> with root/model/video a file  *)
(*   id_file      the text of the file --id-file names, Nothing if absent  *)
(*   physics      Nothing when physics_gpt_outputs_with_force is absent,   *)
(*                else Some(the sequence of its entries in iterdir order), *)
(*                each a record [name, is_dir, files], files a set of      *)
(*                records [name, data], data the text the file decodes to  *)
(*                or Nothing when it cannot be decoded                     *)
(***************************************************************************)

endswith(s, suffix) ==
    Len(s) >= Len(suffix) /\ Slice(s, Len(s) - Len(suffix), Len(s)) = suffix

MP4 == <<".", "m", "p", "4">>

\* discover_ids: the names matching *.mp4 anywhere under the root, sorted
discover_ids(f) ==
    sorted({x[2] : x \in {y \in f.files : endswith(y[2], MP4)}}
           \cup {c.name : c \in {d \in f.children : endswith(d.name, MP4)}})

\* variant: the provided list is sorted and deduplicated too
resolve_models_reorders(f, ms) ==
    IF Truthy(ms) THEN sorted({ms[1][i] : i \in 1..Len(ms[1])})
    ELSE sorted({c.name : c \in {d \in f.children : d.is_dir}})

\* resolve_models(root, models), models an optional list
resolve_models(f, ms) ==
    IF Truthy(ms) THEN ms[1]
    ELSE sorted({c.name : c \in {d \in f.children : d.is_dir}})

\* (demo_root / model / video).exists(); an empty video names root/model itself
path_exists(f, model, video) ==
    IF video = <<>> THEN \E c \in f.children : c.name = model
    ELSE <<model, video>> \in f.files

(***************************************************************************)
(* find_prompt_assets                                                      *)
(***************************************************************************)

physics_root ==
    <<"p", "h", "y", "s", "i", "c", "s", "_", "g", "p", "t", "_", "o", "u", "t",
      "p", "u", "t", "s", "_", "w", "i", "t", "h", "_", "f", "o", "r", "c", "e">>

FRAME0_JPG == <<"_", "f", "r", "a", "m", "e", "0", ".", "j", "p", "g">>

DOT_TXT == <<".", "t", "x", "t">>

\* Path(name).stem for a name without "/": the name less its last suffix
stem_of(name) ==
    LET i == rfind(name, <<".">>, 0, Len(name))
    IN  IF 0 < i /\ i < Len(name) - 1 THEN Slice(name, 0, i) ELSE name

file_exists(sub, fname) == \E x \in sub.files : x.name = fname

\* the text read_text returns, Nothing when it raises
read_text(sub, fname) == (CHOOSE x \in sub.files : x.name = fname).data

\* (sub / fname).as_posix()
posix_path(sub, fname) == physics_root \o <<"/">> \o sub.name \o <<"/">> \o fname

img_path(sub, stem) ==
    IF file_exists(sub, stem \o FRAME0_JPG)
    THEN Some(posix_path(sub, stem \o FRAME0_JPG)) ELSE Nothing

txt_path(sub, stem) ==
    IF file_exists(sub, stem \o DOT_TXT)
    THEN Some(posix_path(sub, stem \o DOT_TXT)) ELSE Nothing

txt_content(sub, stem) ==
    IF txt_path(sub, stem) # Nothing THEN read_text(sub, stem \o DOT_TXT) ELSE Nothing

NoAssets == <<Nothing, Nothing, Nothing>>

RECURSIVE scan_subdirs(_, _)
\* the loop over physics_root.iterdir(): returns at the first directory that
\* holds the image or the text
scan_subdirs(subs, stem) ==
    IF subs = <<>> THEN NoAssets
    ELSE IF ~Head(subs).is_dir THEN scan_subdirs(Tail(subs), stem)
    ELSE IF img_path(Head(subs), stem) # Nothing \/ txt_path(Head(subs), stem) # Nothing
         THEN <<img_path(Head(subs), stem), txt_path(Head(subs), stem),
                txt_content(Head(subs), stem)>>
    ELSE scan_subdirs(Tail(subs), stem)

\* variant: the loop goes on after a match, looking for what is still missing
RECURSIVE scan_subdirs_merging(_, _)
scan_subdirs_merging(subs, stem) ==
    IF subs = <<>> THEN NoAssets
    ELSE IF ~Head(subs).is_dir THEN scan_subdirs_merging(Tail(subs), stem)
    ELSE LET rest == scan_subdirs_merging(Tail(subs), stem)
             i == img_path(Head(subs), stem)
             t == txt_path(Head(subs), stem)
         IN  <<IF i # Nothing THEN i ELSE rest[1],
               IF t # Nothing THEN t ELSE rest[2],
               IF t # Nothing THEN txt_content(Head(subs), stem) ELSE rest[3]>>

find_prompt_assets_merging(video_name, physics) ==
    IF physics = Nothing THEN NoAssets
    ELSE scan_subdirs_merging(physics[1], stem_of(video_name))

\* find_prompt_assets(video_name, physics_root): <<image path, text path, text>>
find_prompt_assets(video_name, physics) ==
    IF physics = Nothing THEN NoAssets
    ELSE scan_subdirs(physics[1], stem_of(video_name))

(***************************************************************************)
(* build_entries                                                           *)
(***************************************************************************)

RECURSIVE replace(_, _, _)
\* s.replace(old, new) for a one-character old
replace(s, old, new) ==
    IF s = <<>> THEN <<>>
    ELSE (IF s[1] = old THEN new ELSE <<s[1]>>) \o replace(Tail(s), old, new)

\* variant: the quotes are escaped before the backslashes
clean_quote_first(txt) ==
    replace(replace(replace(replace(txt, "\"", <<"\\", "\"">>),
                            "\\", <<"\\", "\\">>),
                    "\r", <<>>),
            "\n", <<"\\", "n">>)

\* the escaping of prompt_txt_content
clean(txt) ==
    replace(replace(replace(replace(txt, "\\", <<"\\", "\\">>),
                            "\"", <<"\\", "\"">>),
                    "\r", <<>>),
            "\n", <<"\\", "n">>)

QUOTE == <<"\"">>

\* f'{key}: "{value}"'
field(key, value) == key \o <<":", " ">> \o QUOTE \o value \o QUOTE

K_src == <<"s", "r", "c">>

K_id == <<"i", "d">>

K_promptImg == <<"p", "r", "o", "m", "p", "t", "I", "m", "g">>

K_promptText == <<"p", "r", "o", "m", "p", "t", "T", "e", "x", "t">>

K_promptTextContent ==
    <<"p", "r", "o", "m", "p", "t", "T", "e", "x", "t", "C", "o", "n", "t", "e",
      "n", "t">>

\* the fields list of one entry, assets being what find_prompt_assets returned
fields(video, model, public_prefix, assets) ==
    <<field(K_src, public_prefix \o <<"/">> \o model \o <<"/">> \o video),
      field(K_id, model \o <<"/">> \o video)>>
    \o (IF Truthy(assets[1]) THEN <<field(K_promptImg, assets[1][1])>> ELSE <<>>)
    \o (IF Truthy(assets[2]) THEN <<field(K_promptText, assets[2][1])>> ELSE <<>>)
    \o (IF Truthy(assets[3])
        THEN <<field(K_promptTextContent, clean(assets[3][1]))>> ELSE <<>>)

\* "  { " + ", ".join(fields) + " },"
entry(video, model, f, public_prefix) ==
    <<" ", " ", "{", " ">>
    \o join(<<",", " ">>,
            fields(video, model, public_prefix, find_prompt_assets(video, f.physics)))
    \o <<" ", "}", ",">>

RECURSIVE entries_of_video(_, _, _, _)
\* the inner loop: for model in models
entries_of_video(video, ms, f, public_prefix) ==
    IF ms = <<>> THEN <<>>
    ELSE (IF path_exists(f, Head(ms), video)
          THEN <<entry(video, Head(ms), f, public_prefix)>> ELSE <<>>)
         \o entries_of_video(video, Tail(ms), f, public_prefix)

\* variant: no test that the path exists
RECURSIVE entries_unfiltered(_, _, _, _)
entries_unfiltered(video, ms, f, public_prefix) ==
    IF ms = <<>> THEN <<>>
    ELSE <<entry(video, Head(ms), f, public_prefix)>>
         \o entries_unfiltered(video, Tail(ms), f, public_prefix)

RECURSIVE build_entries_unfiltered(_, _, _, _)
build_entries_unfiltered(vs, ms, f, public_prefix) ==
    IF vs = <<>> THEN <<>>
    ELSE entries_unfiltered(Head(vs), ms, f, public_prefix)
         \o build_entries_unfiltered(Tail(vs), ms, f, public_prefix)

RECURSIVE build_entries(_, _, _, _)
\* build_entries(video_ids, models, demo_root, public_prefix): for video in video_ids
build_entries(vs, ms, f, public_prefix) ==
    IF vs = <<>> THEN <<>>
    ELSE entries_of_video(Head(vs), ms, f, public_prefix)
         \o build_entries(Tail(vs), ms, f, public_prefix)

(***************************************************************************)
(* main, one action per stage, and update_script_js                        *)
(***************************************************************************)

\* args.public_prefix or demo_root.as_posix()
public_prefix_of(a) == IF Truthy(a.public_prefix) THEN a.public_prefix[1] ELSE a.root

Raise(e) == pc' = "failed" /\ err' = e

\* main: if not args.root.exists(): raise FileNotFoundError
CheckRoot ==
    /\ pc = "main"
    /\ IF ~fs.root_exists THEN Raise("FileNotFoundError")
       ELSE pc' = "ids" /\ err' = err
    /\ UNCHANGED <<runs, repeat, args, fs, script, content, video_ids, models,
                   entries, call, ret>>

\* main: video_ids from the ID file when one is named, else from the scan
ResolveIds ==
    /\ pc = "ids"
    /\ IF args.id_file # Nothing
       THEN IF fs.id_file = Nothing
            THEN Raise("FileNotFoundError") /\ video_ids' = video_ids
            ELSE /\ video_ids' = read_ids_from_file(fs.id_file[1])
                 /\ pc' = "models" /\ err' = err
       ELSE /\ video_ids' = discover_ids(fs)
            /\ pc' = "models" /\ err' = err
    /\ UNCHANGED <<runs, repeat, args, fs, script, content, models, entries,
                   call, ret>>

\* main: models = resolve_models(demo_root, args.models)
ResolveModels ==
    /\ pc = "models"
    /\ models' = resolve_models(fs, args.models)
    /\ pc' = "entries"
    /\ UNCHANGED <<err, runs, repeat, args, fs, script, content, video_ids,
                   entries, call, ret>>

\* main: entries = build_entries(video_ids, models, demo_root, public_prefix)
BuildEntries ==
    /\ pc = "entries"
    /\ entries' = build_entries(video_ids, models, fs, public_prefix_of(args))
    /\ pc' = "splice"
    /\ UNCHANGED <<err, runs, repeat, args, fs, script, content, video_ids,
                   models, call, ret>>

\* variant: the order of the markers is not tested
update_script_js_unchecked ==
    /\ pc = "splice"
    /\ content' = script
    /\ IF start_idx(script) = -1 \/ end_idx(script) = -1
       THEN Raise("RuntimeError") /\ script' = script
       ELSE /\ script' = spliced(script, entries)
            /\ pc' = "done" /\ err' = err
    /\ UNCHANGED <<runs, repeat, args, fs, video_ids, models, entries, call, ret>>

\* update_script_js(script_path, entries): reads the document, raises when the
\* markers are not found, and otherwise overwrites it
update_script_js ==
    /\ pc = "splice"
    /\ content' = script
    /\ IF markers_not_found(script)
       THEN Raise("RuntimeError") /\ script' = script
       ELSE /\ script' = spliced(script, entries)
            /\ pc' = "done" /\ err' = err
    /\ UNCHANGED <<runs, repeat, args, fs, video_ids, models, entries, call, ret>>

(***************************************************************************)
(* Bounds and input sets                                                   *)
(***************************************************************************)

MaxRuns == 2

MaxDocPieces == 4

MaxIdText == 5

MaxPrompt == 4

MaxSubdirs == 3

MX == <<"X">>

MY == <<"Y">>

VA == <<"a">>

VB == <<"b">>

A_MP4 == <<"a", ".", "m", "p", "4">>

B_MP4 == <<"b", ".", "m", "p", "4">>

ROOT == <<"d">>

Children == {[name |-> MX, is_dir |-> TRUE], [name |-> MY, is_dir |-> TRUE],
             [name |-> <<"n">>, is_dir |-> FALSE]}

\* "a.mp4,ignored\n\nb.mp4\n"
IdFileText ==
    A_MP4 \o <<",", "i", "g", "n", "o", "r", "e", "d", "\n", "\n">> \o B_MP4 \o NL

PromptDir(text) ==
    [name |-> <<"s">>, is_dir |-> TRUE,
     files |-> {[name |-> <<"a">> \o DOT_TXT, data |-> Some(text)],
                [name |-> <<"a">> \o FRAME0_JPG, data |-> Nothing]}]

\* a prompt text that quotes the closing marker
PromptWithMarker == <<"s", "e", "e", " ">> \o VIDEO_LIST_END

PhysicsChoices ==
    {Nothing, Some(<<PromptDir(<<"h", "i", "\n">>)>>), Some(<<PromptDir(PromptWithMarker)>>)}

EmptyFs ==
    [root_exists |-> TRUE, children |-> {}, files |-> {}, id_file |-> Nothing,
     physics |-> Nothing]

\* the root is missing, or it holds X/a.mp4 and Y/b.mp4 (and not X/b.mp4)
FsChoices ==
    {[EmptyFs EXCEPT !.root_exists = FALSE]}
    \cup {[root_exists |-> TRUE, children |-> Children,
           files |-> {<<MX, A_MP4>>, <<MY, B_MP4>>}, id_file |-> idf,
           physics |-> ph] :
             idf \in {Nothing, Some(IdFileText)}, ph \in PhysicsChoices}

\* the command lines: the defaults; --id-file; --id-file --models Y X
\* --public-prefix p; --models (no names) with an empty --public-prefix
ArgChoices ==
    {[root |-> ROOT, id_file |-> Nothing, models |-> Nothing, public_prefix |-> Nothing],
     [root |-> ROOT, id_file |-> Some(<<"i">>), models |-> Nothing,
      public_prefix |-> Nothing],
     [root |-> ROOT, id_file |-> Some(<<"i">>), models |-> Some(<<MY, MX>>),
      public_prefix |-> Some(<<"p">>)],
     [root |-> ROOT, id_file |-> Nothing, models |-> Some(<<>>),
      public_prefix |-> Some(<<>>)]}

NoArgs == [root |-> ROOT, id_file |-> Nothing, models |-> Nothing, public_prefix |-> Nothing]

Indent2 == <<" ", " ">>

\* target documents of the pipeline: well-formed ones and the malformed shapes
ScriptChoices ==
    {<<"[", "\n">> \o Indent2 \o VIDEO_LIST_START \o <<"\n", "o", "\n">> \o Indent2
        \o VIDEO_LIST_END \o <<"\n", "]">>,
     <<"[", "\n">> \o Indent2 \o VIDEO_LIST_START \o NL \o VIDEO_LIST_END \o NL,
     VIDEO_LIST_START \o <<" ">> \o VIDEO_LIST_END,
     NL \o VIDEO_LIST_START \o <<"\n", "o">>,
     <<"o", "\n">> \o VIDEO_LIST_END,
     VIDEO_LIST_END \o NL \o VIDEO_LIST_START,
     <<"o", "\n">>}

NoCall == [fn |-> "none"]

(***************************************************************************)
(* Spec: invocations of main, one after another, on a fixed filesystem     *)
(***************************************************************************)

Init ==
    /\ pc = "main"
    /\ err = "none"
    /\ runs = 1
    /\ repeat = FALSE
    /\ args \in ArgChoices
    /\ fs \in FsChoices
    /\ script \in ScriptChoices
    /\ content = <<>>
    /\ video_ids = <<>>
    /\ models = <<>>
    /\ entries = <<>>
    /\ call = NoCall
    /\ ret = <<>>

\* the command is run again, with the same or with other arguments
Invoke ==
    /\ pc \in {"done", "failed"}
    /\ runs < MaxRuns
    /\ \E a \in ArgChoices : args' = a /\ repeat' = (a = args)
    /\ runs' = runs + 1
    /\ pc' = "main"
    /\ err' = "none"
    /\ content' = <<>>
    /\ video_ids' = <<>>
    /\ models' = <<>>
    /\ entries' = <<>>
    /\ UNCHANGED <<fs, script, call, ret>>

Next ==
    \/ CheckRoot
    \/ ResolveIds
    \/ ResolveModels
    \/ BuildEntries
    \/ update_script_js
    \/ Invoke

Spec == Init /\ [][Next]_vars

(***************************************************************************)
(* SpecSplice: update_script_js called over and over, on every document    *)
(* made of at most MaxDocPieces pieces                                     *)
(***************************************************************************)

DocPieces == {NL, <<"\n", " ", " ">>, <<"x">>, VIDEO_LIST_START, VIDEO_LIST_END}

Docs == {Concat(p) : p \in SeqsUpTo(DocPieces, MaxDocPieces)}

\* '  { src: "d/X/a", id: "X/a" },'
PlainEntryA == entry(VA, MX, EmptyFs, ROOT)

PlainEntryB == entry(VB, MY, EmptyFs, ROOT)

\* the entry of X/a under --public-prefix "// === VIDEO LIST END ==="
MarkerEntry == entry(VA, MX, EmptyFs, VIDEO_LIST_END)

SpliceEntryLists ==
    {<<>>, <<PlainEntryA>>, <<PlainEntryA, PlainEntryB>>, <<MarkerEntry>>,
     <<PlainEntryA, MarkerEntry>>}

InitSplice ==
    /\ pc = "splice"
    /\ err = "none"
    /\ runs = 1
    /\ repeat = FALSE
    /\ args = NoArgs
    /\ fs = EmptyFs
    /\ script \in Docs
    /\ content = <<>>
    /\ video_ids = <<>>
    /\ models = <<>>
    /\ entries \in SpliceEntryLists
    /\ call = NoCall
    /\ ret = <<>>

\* update_script_js is called again, with the same or with other entries
SpliceAgain ==
    /\ pc = "done"
    /\ runs < MaxRuns
    /\ \E es \in SpliceEntryLists : entries' = es /\ repeat' = (es = entries)
    /\ runs' = runs + 1
    /\ pc' = "splice"
    /\ UNCHANGED <<err, args, fs, script, content, video_ids, models, call, ret>>

NextSplice == update_script_js \/ SpliceAgain

SpecSplice == InitSplice /\ [][NextSplice]_vars

(***************************************************************************)
(* SpecFn: single calls of the functions, over all small arguments         *)
(***************************************************************************)

IdChars == {"a", "b", ",", " ", "\n"}

PromptChars == {"\\", "\"", "\r", "\n", "n", "x"}

ModelLists == {<<>>, <<MX>>, <<MY>>, <<MX, MY>>, <<MY, MX>>, <<MX, MX>>, <<<<"Z">>>>}

ChildPool == Children \cup {[name |-> <<"W">>, is_dir |-> TRUE]}

DIGITS == <<"1", "2", "3", "4", "5", "6", "7", "8", "9">>

SubKinds == {"file", "empty", "other", "img", "txt", "both", "undecodable"}

\* the i-th entry of the asset root, of the given kind, for the stem "a";
\* its text file holds "t<i>"
MakeSub(i, kind) ==
    [name |-> <<"s", DIGITS[i]>>,
     is_dir |-> kind # "file",
     files |->
        (IF kind \in {"img", "both"}
         THEN {[name |-> VA \o FRAME0_JPG, data |-> Nothing]} ELSE {})
        \cup (IF kind \in {"txt", "both"}
              THEN {[name |-> VA \o DOT_TXT, data |-> Some(<<"t", DIGITS[i]>>)]} ELSE {})
        \cup (IF kind = "undecodable"
              THEN {[name |-> VA \o DOT_TXT, data |-> Nothing]} ELSE {})
        \cup (IF kind = "other"
              THEN {[name |-> VB \o DOT_TXT, data |-> Some(<<"o">>)]} ELSE {})]

PhysicsPool ==
    {Nothing} \cup
    {Some([i \in 1..Len(kinds) |-> MakeSub(i, kinds[i])]) :
        kinds \in SeqsUpTo(SubKinds, MaxSubdirs)}

\* a root holding X/a.mp4, and one asset directory whose a.txt holds text
PromptFs(text) ==
    [root_exists |-> TRUE, children |-> Children, files |-> {<<MX, A_MP4>>},
     id_file |-> Nothing, physics |-> Some(<<PromptDir(text)>>)]

FnCalls ==
    {[fn |-> "read_ids_from_file", text |-> t] : t \in SeqsUpTo(IdChars, MaxIdText)}
    \cup {[fn |-> "resolve_models", f |-> [EmptyFs EXCEPT !.children = c], models |-> m] :
            c \in SUBSET ChildPool, m \in {Nothing} \cup {Some(l) : l \in ModelLists}}
    \cup {[fn |-> "find_prompt_assets", video_name |-> A_MP4, physics |-> ph] :
            ph \in PhysicsPool}
    \cup {[fn |-> "build_entries", video_ids |-> <<A_MP4>>, models |-> <<MX>>,
           f |-> PromptFs(t), public_prefix |-> ROOT] :
            t \in SeqsUpTo(PromptChars, MaxPrompt)}

InitFn ==
    /\ pc = "call"
    /\ call \in FnCalls
    /\ ret = <<>>
    /\ err = "none"
    /\ runs = 1
    /\ repeat = FALSE
    /\ args = NoArgs
    /\ fs = EmptyFs
    /\ script = <<>>
    /\ content = <<>>
    /\ video_ids = <<>>
    /\ models = <<>>
    /\ entries = <<>>

Return(value) ==
    /\ ret' = value
    /\ pc' = "returned"
    /\ UNCHANGED <<err, runs, repeat, args, fs, script, content, video_ids, models,
                   entries, call>>

ReadIdsFromFile ==
    pc = "call" /\ call.fn = "read_ids_from_file" /\ Return(read_ids_from_file(call.text))

ResolveModelsCall ==
    pc = "call" /\ call.fn = "resolve_models" /\ Return(resolve_models(call.f, call.models))

FindPromptAssets ==
    /\ pc = "call" /\ call.fn = "find_prompt_assets"
    /\ Return(find_prompt_assets(call.video_name, call.physics))

BuildEntriesCall ==
    /\ pc = "call" /\ call.fn = "build_entries"
    /\ Return(build_entries(call.video_ids, call.models, call.f, call.public_prefix))

\* main hands the IDs read from the file to build_entries
CallBuildEntries ==
    /\ pc = "returned" /\ call.fn = "read_ids_from_file"
    /\ \E ms \in ModelLists, fl \in SUBSET ({MX, MY} \X {VA, VB}) :
          call' = [fn |-> "build_entries", video_ids |-> ret, models |-> ms,
                   f |-> [EmptyFs EXCEPT !.children = Children, !.files = fl],
                   public_prefix |-> ROOT]
    /\ ret' = <<>>
    /\ pc' = "call"
    /\ UNCHANGED <<err, runs, repeat, args, fs, script, content, video_ids, models,
                   entries>>

NextFn ==
    \/ ReadIdsFromFile
    \/ ResolveModelsCall
    \/ FindPromptAssets
    \/ BuildEntriesCall
    \/ CallBuildEntries

SpecFn == InitFn /\ [][NextFn]_vars

(***************************************************************************)
(* Properties of update_script_js (SpecSplice).  In a state with           *)
(* pc = "done", content is the document the splice read and script the     *)
(* document it wrote.  The markers of the document read are the first      *)
(* occurrences, as the code finds them; the end marker of the document     *)
(* written is the occurrence the splice carried over, which starts         *)
(* Len(content) - end_idx(content) characters before the end.              *)
(***************************************************************************)

\* index in the written document of the end marker the splice carried over
WrittenEndIdx == Len(script) - (Len(content) - find(content, VIDEO_LIST_END))

\* the text between the start of the line holding index i and index i
LinePrefix(text, i) == Slice(text, rfind(text, NL, 0, i) + 1, i)

HoldsEndMarker(e) == find(e, VIDEO_LIST_END) # -1

\* C1: after a successful splice the text before the start marker and the
\* text after the end marker are those of the document read: the start marker
\* is found at the same index with the same text before it, and the written
\* document ends with the end marker followed by the text that followed the
\* end marker before; when no entry holds the end marker's text that end
\* marker is also the first one of the written document.
C1_MarkerInvariance ==
    pc = "done" =>
        LET s == find(content, VIDEO_LIST_START)
            e == find(content, VIDEO_LIST_END)
            w == WrittenEndIdx
        IN  /\ find(script, VIDEO_LIST_START) = s
            /\ Slice(script, 0, s) = Slice(content, 0, s)
            /\ w >= s + Len(VIDEO_LIST_START)
            /\ Slice(script, w, w + Len(VIDEO_LIST_END)) = VIDEO_LIST_END
            /\ Slice(script, w + Len(VIDEO_LIST_END), Len(script))
                 = Slice(content, e + Len(VIDEO_LIST_END), Len(content))
            /\ (\A k \in 1..Len(entries) : ~HoldsEndMarker(entries[k]))
                 => find(script, VIDEO_LIST_END) = w

\* a splice that changed a document with text before the start marker and
\* text after the end marker
C1_Witness ==
    /\ pc = "done"
    /\ script # content
    /\ find(content, VIDEO_LIST_START) > 0
    /\ find(content, VIDEO_LIST_END) + Len(VIDEO_LIST_END) < Len(content)

C10_Rerunnable ==
    /\ pc = "done" =>
          /\ find(script, VIDEO_LIST_START) # -1
          /\ find(script, VIDEO_LIST_END) > find(script, VIDEO_LIST_START)
    /\ runs > 1 => (pc # "failed" /\ err = "none")

\* a later run, with other entries than the run before, one of them holding
\* the end marker's text
C10_Witness ==
    /\ pc = "done"
    /\ runs > 1
    /\ ~repeat
    /\ \E k \in 1..Len(entries) : HoldsEndMarker(entries[k])

(***************************************************************************)
(* Properties of main (Spec)                                               *)
(***************************************************************************)

\* the fatal conditions: the root is missing, the ID file named on the command
\* line is missing, or the document lacks a marker or has them out of order
Fatal ==
    \/ ~fs.root_exists
    \/ (args.id_file # Nothing /\ fs.id_file = Nothing)
    \/ find(script, VIDEO_LIST_START) = -1
    \/ find(script, VIDEO_LIST_END) = -1
    \/ find(script, VIDEO_LIST_END) <= find(script, VIDEO_LIST_START)

\* C2: under a fatal condition no step of the run writes the target document
\* and the run never completes: the step that would splice raises instead,
\* and a run that has raised changed nothing.
C2_AbortsBeforeWrite ==
    [][Fatal => /\ script' = script
                /\ pc' # "done"
                /\ (pc = "splice" => pc' = "failed" /\ err' = "RuntimeError")
                /\ (pc = "main" /\ ~fs.root_exists
                      => pc' = "failed" /\ err' = "FileNotFoundError")
                /\ (pc = "ids" /\ args.id_file # Nothing /\ fs.id_file = Nothing
                      => pc' = "failed" /\ err' = "FileNotFoundError")]_vars

\* the run on a document that has the start marker and lacks the end marker
\* has raised
C2_Witness ==
    /\ pc = "failed"
    /\ err = "RuntimeError"
    /\ find(script, VIDEO_LIST_START) # -1
    /\ find(script, VIDEO_LIST_END) = -1

\* C3: a run that repeats the previous command on unchanged files leaves the
\* target document byte-identical to the one it read.
C3_Idempotent == (pc = "done" /\ repeat) => script = content

(***************************************************************************)
(* Properties of the functions (SpecFn).  In a state with pc = "returned", *)
(* call holds the function called with its arguments and ret its result.   *)
(***************************************************************************)

Returned(fn) == pc = "returned" /\ call.fn = fn

\* the number of pairs of S that come no later than p, video first
Rank(S, p) ==
    Cardinality({q \in S : q[1] < p[1] \/ (q[1] = p[1] /\ q[2] <= p[2])})

\* the lines of text between its newlines, by position
LineCuts(text) == {0, Len(text) + 1} \cup {i \in 1..Len(text) : text[i] = "\n"}

LineAt(text, c) ==
    SubSeq(text, c + 1,
           (CHOOSE d \in LineCuts(text) :
               d > c /\ \A x \in LineCuts(text) : x > c => d <= x) - 1)

Inked(line) == {i \in 1..Len(line) : line[i] \notin Whitespace}

\* line without the white space around it
Trimmed(line) ==
    IF Inked(line) = {} THEN <<>>
    ELSE SubSeq(line, CHOOSE i \in Inked(line) : \A j \in Inked(line) : i <= j,
                CHOOSE i \in Inked(line) : \A j \in Inked(line) : i >= j)

\* line up to its first comma
FirstColumn(line) ==
    LET commas == {i \in 1..Len(line) : line[i] = ","}
    IN  IF commas = {} THEN line
        ELSE SubSeq(line, 1, (CHOOSE i \in commas : \A j \in commas : i <= j) - 1)

\* C4: build_entries returns one record for every pair of a position in the
\* video sequence and a position in the model sequence whose path
\* root/model/video exists, and no other record, ordered by video position
\* and then by model position; the IDs it is given from an ID file are the
\* trimmed first columns of the file's non-blank lines, in file order.
C4_OneRecordPerExistingPair ==
    /\ Returned("build_entries") =>
          LET vs == call.video_ids
              ms == call.models
              Surv == {p \in (1..Len(vs)) \X (1..Len(ms)) :
                          path_exists(call.f, ms[p[2]], vs[p[1]])}
          IN  /\ Len(ret) = Cardinality(Surv)
              /\ \A p \in Surv :
                    find(ret[Rank(Surv, p)],
                         K_id \o <<":", " ", "\"">> \o ms[p[2]] \o <<"/">> \o vs[p[1]]
                            \o <<"\"">>) # -1
    /\ Returned("read_ids_from_file") =>
          LET cuts == {c \in LineCuts(call.text) :
                          c <= Len(call.text) /\ Inked(LineAt(call.text, c)) # {}}
          IN  /\ Len(ret) = Cardinality(cuts)
              /\ \A c \in cuts :
                    ret[Cardinality({d \in cuts : d <= c})]
                       = Trimmed(FirstColumn(LineAt(call.text, c)))

\* the IDs a, b with the models X, Y when only X/a and Y/b exist: two records,
\* that of X/a before that of Y/b
C4_Witness ==
    /\ Returned("build_entries")
    /\ call.video_ids = <<VA, VB>>
    /\ call.models = <<MX, MY>>
    /\ call.f.files = {<<MX, VA>>, <<MY, VB>>}
    /\ Len(ret) = 2
    /\ ret[1] = PlainEntryA
    /\ ret[2] = PlainEntryB

RECURSIVE Unescaped(_)
\* the text a string literal denotes: \\ is a backslash, \" a quote, \n a newline
Unescaped(lit) ==
    IF lit = <<>> THEN <<>>
    ELSE IF lit[1] = "\\" /\ Len(lit) >= 2 /\ lit[2] \in {"\\", "\"", "n"}
         THEN <<IF lit[2] = "n" THEN "\n" ELSE lit[2]>> \o Unescaped(SubSeq(lit, 3, Len(lit)))
    ELSE <<lit[1]>> \o Unescaped(Tail(lit))

\* the text held by the one a.txt of the asset directory of the call
PromptOf(c) == (CHOOSE x \in c.f.physics[1][1].files : x.name = VA \o DOT_TXT).data[1]

ContentKey == K_promptTextContent \o <<":", " ", "\"">>

\* C5: the promptTextContent literal of the entry built for a non-empty prompt
\* text, read back as a string literal, is the prompt text without its
\* carriage returns.
C5_EscapingRoundTrip ==
    (Returned("build_entries") /\ call.f.physics # Nothing) =>
        LET text == PromptOf(call)
            e == ret[1]
            k == find(e, ContentKey)
        IN  IF text = <<>> THEN k = -1
            ELSE /\ k # -1
                 /\ Slice(e, Len(e) - 4, Len(e)) = <<"\"", " ", "}", ",">>
                 /\ Unescaped(Slice(e, k + Len(ContentKey), Len(e) - 4))
                      = SelectSeq(text, LAMBDA c : c # "\r")

\* the prompt text: backslash, n, carriage return, newline
C5_Witness ==
    /\ Returned("build_entries")
    /\ call.f.physics # Nothing
    /\ PromptOf(call) = <<"\\", "n", "\r", "\n">>
    /\ find(ret[1], ContentKey \o <<"\\", "\\", "n", "\\", "n", "\"">>) # -1

\* names strictly ascending
Ascending(names) == \A i \in 1..(Len(names) - 1) : str_lt(names[i], names[i + 1])

SubdirNames(f) == {c.name : c \in {d \in f.children : d.is_dir}}

RangeOf(q) == {q[i] : i \in 1..Len(q)}

\* C7 as stated: every list that is provided is returned as it is, and the
\* subdirectories of the root are listed only when none is provided.
C7_AnyListVerbatim ==
    Returned("resolve_models") =>
        IF call.models # Nothing THEN ret = call.models[1]
        ELSE Ascending(ret) /\ RangeOf(ret) = SubdirNames(call.f)

\* C7, amended: a provided list that is not empty is returned as it is, same
\* elements in the same order, whether or not the root holds them; when no
\* list is provided, or the list provided is empty, the names of the root's
\* immediate subdirectories are returned, ascending, without the entries that
\* are not directories.
C7_NonEmptyListVerbatim ==
    Returned("resolve_models") =>
        IF call.models # Nothing /\ call.models[1] # <<>> THEN ret = call.models[1]
        ELSE Ascending(ret) /\ RangeOf(ret) = SubdirNames(call.f)

\* the list Y, X provided for a root that holds the directories W, X and a file
C7_Witness ==
    /\ Returned("resolve_models")
    /\ call.models = Some(<<MY, MX>>)
    /\ SubdirNames(call.f) = {MX, <<"W">>}
    /\ call.f.children # {c \in call.f.children : c.is_dir}
    /\ ret = <<MY, MX>>

HasFile(sub, fname) == \E x \in sub.files : x.name = fname

\* the entries of the asset root that are directories holding the image or the
\* text of the stem "a"
Matches(subs) ==
    {i \in 1..Len(subs) :
        /\ subs[i].is_dir
        /\ HasFile(subs[i], VA \o FRAME0_JPG) \/ HasFile(subs[i], VA \o DOT_TXT)}

PathIn(sub, fname) == physics_root \o <<"/">> \o sub.name \o <<"/">> \o fname

\* C9: find_prompt_assets returns nothing when the asset root is missing or no
\* directory in it holds the image or the text, and then the entry has no
\* prompt field; otherwise the image path, the text path and the text all are
\* those of the first directory, in iteration order, that holds one of the
\* two files, even when it holds only one of them.
C9_FirstMatchWins ==
    Returned("find_prompt_assets") =>
        IF call.physics = Nothing \/ Matches(call.physics[1]) = {}
        THEN /\ ret = <<Nothing, Nothing, Nothing>>
             /\ find(entry(call.video_name, MX,
                           [EmptyFs EXCEPT !.physics = call.physics], ROOT),
                     <<"p", "r", "o", "m", "p", "t">>) = -1
        ELSE LET subs == call.physics[1]
                 first == CHOOSE i \in Matches(subs) : \A j \in Matches(subs) : i <= j
                 sub == subs[first]
             IN  /\ ret[1] = (IF HasFile(sub, VA \o FRAME0_JPG)
                              THEN Some(PathIn(sub, VA \o FRAME0_JPG)) ELSE Nothing)
                 /\ ret[2] = (IF HasFile(sub, VA \o DOT_TXT)
                              THEN Some(PathIn(sub, VA \o DOT_TXT)) ELSE Nothing)
                 /\ ret[3] = (IF \E x \in sub.files :
                                    x.name = VA \o DOT_TXT /\ x.data # Nothing
                              THEN Some(<<"t", DIGITS[first]>>) ELSE Nothing)

\* the first directory holds only the image and the second one holds the text:
\* the image of the first is returned, without any text
C9_Witness ==
    /\ Returned("find_prompt_assets")
    /\ call.physics # Nothing
    /\ Len(call.physics[1]) >= 2
    /\ call.physics[1][1].is_dir
    /\ HasFile(call.physics[1][1], VA \o FRAME0_JPG)
    /\ ~HasFile(call.physics[1][1], VA \o DOT_TXT)
    /\ HasFile(call.physics[1][2], VA \o DOT_TXT)
    /\ ret = <<Some(PathIn(call.physics[1][1], VA \o FRAME0_JPG)), Nothing, Nothing>>

====
